---- MODULE Spec2Model ----
(***************************************************************************)
(* k8schema: an in-memory cache of a cluster's OpenAPI v3 schemas          *)
(* (class SchemaCache), refreshed by a background thread and read by the   *)
(* HTTP handlers /all.json and /_definitions.json.                         *)
(*                                                                         *)
(* JSON values are tagged records:                                         *)
(*   [str |-> <<chars or tokens>>]   a string, as a sequence of pieces     *)
(*   [bool |-> b]                    true / false                          *)
(*   [lst |-> <<v1, ..., vn>>]       a list                                *)
(*   [obj |-> <<[k, v], ...>>]       a dict, in insertion order            *)
(* A Python dict keeps insertion order, so a dict is a sequence of         *)
(* key/value pairs with pairwise distinct keys.                            *)
(***************************************************************************)
EXTENDS Integers, Sequences, FiniteSets, TLC

\* ------------------------------------------------------------------ bounds
MaxPaths == 2        \* most paths a catalog document lists
MaxTriples == 2      \* most group-version-kind triples on a generated node

\* ------------------------------------------------------------- JSON values
Str(s) == [str |-> s]
Bool(b) == [bool |-> b]
Lst(l) == [lst |-> l]
Obj(o) == [obj |-> o]
Pair(key, val) == [k |-> key, v |-> val]

IsDict(x) == "obj" \in DOMAIN x
IsList(x) == "lst" \in DOMAIN x
IsStr(x) == "str" \in DOMAIN x

\* `key in d`, d[key], d[key] = val, d.pop(key, ...) on the pair sequence of a dict
Has(o, key) == \E i \in 1..Len(o) : o[i].k = key
Get(o, key) == o[CHOOSE i \in 1..Len(o) : o[i].k = key].v
Put(o, key, val) ==
  IF Has(o, key)
  THEN [i \in 1..Len(o) |-> IF o[i].k = key THEN Pair(key, val) ELSE o[i]]
  ELSE Append(o, Pair(key, val))
DictPop(o, key) == SelectSeq(o, LAMBDA p : p.k # key)
Keys(o) == [i \in 1..Len(o) |-> o[i].k]
KeySet(o) == {o[i].k : i \in 1..Len(o)}

\* dict.update(other): existing keys keep their place and take the new value,
\* new keys are appended in other's order
RECURSIVE DictUpdate(_, _)
DictUpdate(o, other) ==
  IF other = <<>> THEN o
  ELSE DictUpdate(Put(o, Head(other).k, Head(other).v), Tail(other))

\* the literals of the source
REF == "$ref"
ALLOF == "allOf"
ENUM == "enum"
DEFAULT == "default"
PROPERTIES == "properties"
KIND == "kind"
APIVERSION == "apiVersion"
GROUP == "group"
VERSION == "version"
GVK == "x-kubernetes-group-version-kind"
PRESERVE == "x-kubernetes-preserve-unknown-fields"
ADDITIONAL == "additionalProperties"
COMPONENTS == "#/components/schemas/"
DEFINITIONS == "#/definitions/"

\* str.replace("#/components/schemas/", "#/definitions/") on a string held as a
\* sequence of pieces, the two prefixes being pieces of their own
StrReplace(s) ==
  [i \in 1..Len(s) |-> IF s[i] = COMPONENTS THEN DEFINITIONS ELSE s[i]]

Readers == {"r1"}                     \* the HTTP clients
Ids == 1..(Cardinality(Readers) + 1)   \* addresses of the dict objects alive at once
NoRes == [none |-> TRUE]               \* no response received

VARIABLES
  hashRev,     \* the process's hash seed: the order list(set(...)) yields
  heap,        \* the dict objects: address -> items (unreferenced ones are empty)
  cur,         \* self._schemas: the address of the store's dict
  lock,        \* self._lock is held (by update(); the readers hold it within a step)
  running,     \* the Event `running`
  elapsed,     \* time.time() > last_run + interval
  spc,         \* where the thread update_cache is
  mpc,         \* where main is, from uvicorn.run on
  todo,        \* update(): the paths of the catalog still to fetch
  rpc,         \* per client: the request its handler is serving
  rref,        \* per client: the dict schemas() returned to the handler (0: none)
  allRes,      \* per client: the body of its last /all.json response
  defRes,      \* per client: the body of its last /_definitions.json response
  straddle,    \* per client: a cycle began between its two reads
  before,      \* history: the store's items when the latest cycle began (until a cycle succeeds)
  lastGood,    \* history: the items the latest cycle that ran to its end installed
  hadNonEmpty, \* history: some cycle ran to its end and installed a non-empty set
  outcome,     \* history: how the latest cycle ended
  fetched,     \* history: the responses to the running cycle's per-path requests
  nv,          \* normalization on its own: the SchemaSet under normalization
  nfirst,      \* normalization on its own: the SchemaSet after the first pass
  nin,         \* normalization on its own: the SchemaSet as it was fetched
  npc          \* normalization on its own: passes applied

vars == <<hashRev, heap, cur, lock, running, elapsed, spc, mpc, todo, rpc, rref,
          allRes, defRes, straddle, before, lastGood, hadNonEmpty, outcome,
          fetched, nv, nfirst, nin, npc>>
sysVars == <<heap, cur, lock, running, elapsed, spc, mpc, todo, rpc, rref,
             allRes, defRes, straddle, before, lastGood, hadNonEmpty,
             outcome, fetched>>
readerVars == <<rpc, rref, allRes, defRes, straddle>>
histVars == <<before, lastGood, hadNonEmpty, outcome, fetched>>
normVars == <<nv, nfirst, nin, npc>>

\* list(set(xs)): the distinct values of xs. The order is the set's hash
\* order, fixed per process and otherwise unspecified: first-occurrence order
\* or its reverse here, so that nothing can rest on it.
RECURSIVE FirstOccurrences(_)
FirstOccurrences(xs) ==
  IF xs = <<>> THEN <<>>
  ELSE LET rest == FirstOccurrences(SubSeq(xs, 1, Len(xs) - 1))
           x == xs[Len(xs)]
       IN IF \E i \in 1..Len(rest) : rest[i] = x THEN rest ELSE Append(rest, x)
Reverse(xs) == [i \in 1..Len(xs) |-> xs[Len(xs) + 1 - i]]
ListOfSet(xs) ==
  IF hashRev THEN Reverse(FirstOccurrences(xs)) ELSE FirstOccurrences(xs)
\* set(xs) raises TypeError on an unhashable element (a dict or a list)
Hashable(xs) == \A i \in 1..Len(xs) : ~IsDict(xs[i]) /\ ~IsList(xs[i])

\* len(x) of a dict, a list or a string; TypeError on anything else
Sized(x) == IsDict(x) \/ IsList(x) \/ IsStr(x)
PyLen(x) == IF IsDict(x) THEN Len(x.obj) ELSE IF IsList(x) THEN Len(x.lst) ELSE Len(x.str)

\* A call that may raise: the value as the call left it (the mutation is in
\* place, so what was done before the raise stays done) and whether it returned.
Ret(val) == [val |-> val, ok |-> TRUE]
Raise(val) == [val |-> val, ok |-> FALSE]

\* ------------------------------------------- SchemaCache._cleanup_schema
\* v.pop("default", "")
PopDefault(o) == DictPop(o, DEFAULT)

\* the condition of `if "allOf" in v and isinstance(v["allOf"], list) and
\* len(v["allOf"]) == 1 and len(v["allOf"][0]) == 1`; len() of an element that
\* has no length raises
AllOfSingle(o) ==
  /\ Has(o, ALLOF)
  /\ IsList(Get(o, ALLOF))
  /\ Len(Get(o, ALLOF).lst) = 1
AllOfCondRaises(o) == AllOfSingle(o) /\ ~Sized(Get(o, ALLOF).lst[1])
AllOfCond(o) == AllOfSingle(o) /\ Sized(Get(o, ALLOF).lst[1]) /\ PyLen(Get(o, ALLOF).lst[1]) = 1

\* v["$ref"] = v.pop("allOf")[0]["$ref"]: the pop is done before the
\* subscript ["$ref"] can raise (KeyError, or TypeError on a list or a string)
HoistAllOf(o) ==
  IF AllOfCondRaises(o) THEN Raise(o)
  ELSE IF ~AllOfCond(o) THEN Ret(o)
  ELSE LET elem == Get(o, ALLOF).lst[1]
           popped == DictPop(o, ALLOF)
       IN IF IsDict(elem) /\ Has(elem.obj, REF)
          THEN Ret(Put(popped, REF, Get(elem.obj, REF)))
          ELSE Raise(popped)

\* if "$ref" in v and isinstance(v["$ref"], str): v["$ref"] = v["$ref"].replace(...)
RewriteRef(o) ==
  IF Has(o, REF) /\ IsStr(Get(o, REF))
  THEN Put(o, REF, Str(StrReplace(Get(o, REF).str)))
  ELSE o

\* if "enum" in v and isinstance(v["enum"], list): v["enum"] = list(set(v["enum"]))
DedupEnum(o) ==
  IF Has(o, ENUM) /\ IsList(Get(o, ENUM))
  THEN IF Hashable(Get(o, ENUM).lst)
       THEN Ret(Put(o, ENUM, Lst(ListOfSet(Get(o, ENUM).lst))))
       ELSE Raise(o)
  ELSE Ret(o)

RECURSIVE CleanupSchema(_), CleanupItems(_, _), CleanupList(_, _)
\* the loop `for v2 in v1: if isinstance(v2, dict): self._cleanup_schema(v2)`,
\* from element j on: a list directly inside the list is not entered
CleanupList(l, j) ==
  IF j > Len(l) THEN Ret(l)
  ELSE IF IsDict(l[j])
       THEN LET r == CleanupSchema(l[j].obj)
                l2 == [l EXCEPT ![j] = Obj(r.val)]
            IN IF r.ok THEN CleanupList(l2, j + 1) ELSE Raise(l2)
       ELSE CleanupList(l, j + 1)
\* the loop `for k, v1 in v.items()`, from item i on
CleanupItems(o, i) ==
  IF i > Len(o) THEN Ret(o)
  ELSE LET v1 == o[i].v
       IN IF IsDict(v1)
          THEN LET r == CleanupSchema(v1.obj)
                   o2 == [o EXCEPT ![i].v = Obj(r.val)]
               IN IF r.ok THEN CleanupItems(o2, i + 1) ELSE Raise(o2)
          ELSE IF IsList(v1)
          THEN LET r == CleanupList(v1.lst, 1)
                   o2 == [o EXCEPT ![i].v = Lst(r.val)]
               IN IF r.ok THEN CleanupItems(o2, i + 1) ELSE Raise(o2)
          ELSE CleanupItems(o, i + 1)
\* _cleanup_schema(v) on the items o of the dict v
CleanupSchema(o) ==
  LET h == HoistAllOf(PopDefault(o))
      e == DedupEnum(RewriteRef(h.val))
  IN IF ~h.ok THEN h
     ELSE IF ~e.ok THEN e
     ELSE CleanupItems(e.val, 1)

\* ------------------------------------------------- SchemaCache._fix_kind
\* the kind loop without its membership test: every k["kind"] is appended
RECURSIVE KindLoopAppendAll(_, _, _)
KindLoopAppendAll(triples, i, enum) ==
  IF i > Len(triples) THEN Ret(enum)
  ELSE IF ~(IsDict(triples[i]) /\ Has(triples[i].obj, KIND)) THEN Raise(enum)
  ELSE KindLoopAppendAll(triples, i + 1, Append(enum, Get(triples[i].obj, KIND)))

\* the loop that fills properties.kind.enum, from triple i on:
\*   if k["kind"] not in enum: enum.append(k["kind"])
RECURSIVE KindLoop(_, _, _)
KindLoop(triples, i, enum) ==
  IF i > Len(triples) THEN Ret(enum)
  ELSE IF ~(IsDict(triples[i]) /\ Has(triples[i].obj, KIND)) THEN Raise(enum)
  ELSE LET kd == Get(triples[i].obj, KIND)
       IN IF \E j \in 1..Len(enum) : enum[j] = kd
          THEN KindLoop(triples, i + 1, enum)
          ELSE KindLoop(triples, i + 1, Append(enum, kd))

\* f"{k['group']}/{k['version']}" when len(k["group"]) > 0, else k["version"]
ApiVersionOf(group, version) ==
  IF PyLen(group) > 0 THEN Str(group.str \o <<"/">> \o version.str) ELSE version

\* the loop that fills properties.apiVersion.enum, from triple i on: the
\* membership test is on k["group"], the value appended is the apiVersion
RECURSIVE ApiVersionLoop(_, _, _)
ApiVersionLoop(triples, i, enum) ==
  IF i > Len(triples) THEN Ret(enum)
  ELSE IF ~(IsDict(triples[i]) /\ Has(triples[i].obj, GROUP)) THEN Raise(enum)
  ELSE LET grp == Get(triples[i].obj, GROUP)
       IN IF \E j \in 1..Len(enum) : enum[j] = grp
          THEN ApiVersionLoop(triples, i + 1, enum)
          ELSE IF ~Has(triples[i].obj, VERSION) THEN Raise(enum)
          ELSE ApiVersionLoop(triples, i + 1,
                 Append(enum, ApiVersionOf(grp, Get(triples[i].obj, VERSION))))

\* v["properties"][name]["enum"] = enum
SetPropEnum(o, name, enum) ==
  LET props == Get(o, PROPERTIES).obj
      sub == Get(props, name).obj
  IN Put(o, PROPERTIES, Obj(Put(props, name, Obj(Put(sub, ENUM, Lst(enum))))))

\* one of the two halves of _fix_kind: `if name in v["properties"]`, the enum
\* reset to [] and filled by the loop, whose outcome is r. A sub-node that is
\* no dict cannot take the item assignment (TypeError).
FixProp(o, name, r) ==
  LET props == Get(o, PROPERTIES).obj
  IN IF ~Has(props, name) THEN Ret(o)
     ELSE IF ~IsDict(Get(props, name)) THEN Raise(o)
     ELSE [val |-> SetPropEnum(o, name, r.val), ok |-> r.ok]

\* _fix_kind(v) on the items o of the dict v. v["properties"] is subscripted
\* without a test, so a node with the triples and no "properties" raises
\* KeyError. (On every node the model generates "properties" is a dict and the
\* triples are a list.)
FixKind(o) ==
  IF ~Has(o, GVK) THEN Ret(o)
  ELSE IF ~(Has(o, PROPERTIES) /\ IsDict(Get(o, PROPERTIES)) /\ IsList(Get(o, GVK)))
  THEN Raise(o)
  ELSE LET triples == Get(o, GVK).lst
           kd == FixProp(o, KIND, KindLoop(triples, 1, <<>>))
       IN IF ~kd.ok THEN kd
          ELSE FixProp(kd.val, APIVERSION, ApiVersionLoop(triples, 1, <<>>))

\* ------------------------------------ SchemaCache.update, lines 127-132
\* the closed default that leaves an "additionalProperties" already there alone
ClosedDefaultIfAbsent(o) ==
  IF Has(o, PRESERVE) \/ Has(o, ADDITIONAL) THEN o ELSE Put(o, ADDITIONAL, Bool(FALSE))

\* if "x-kubernetes-preserve-unknown-fields" not in v: v["additionalProperties"] = False
ClosedDefault(o) == IF Has(o, PRESERVE) THEN o ELSE Put(o, ADDITIONAL, Bool(FALSE))

\* the body of the loop for one dict value: _fix_kind, the closed-schema
\* default, _cleanup_schema
NormalizeNode(o) ==
  LET f == FixKind(o)
  IN IF ~f.ok THEN f ELSE CleanupSchema(ClosedDefault(f.val))

\* `for v in self._schemas.values(): if isinstance(v, dict): ...`, from
\* definition i on; an exception leaves the loop with the definitions after i
\* as they were fetched
RECURSIVE NormalizeFrom(_, _)
NormalizeFrom(d, i) ==
  IF i > Len(d) THEN Ret(d)
  ELSE IF IsDict(d[i].v)
       THEN LET r == NormalizeNode(d[i].v.obj)
                d2 == [d EXCEPT ![i].v = Obj(r.val)]
            IN IF r.ok THEN NormalizeFrom(d2, i + 1) ELSE Raise(d2)
       ELSE NormalizeFrom(d, i + 1)
NormalizeAll(d) == NormalizeFrom(d, 1)

\* ------------------------------------------------ the API server's answers
Triple(g, ver, kd) ==
  Obj(<<Pair(GROUP, Str(g)), Pair(VERSION, Str(ver)), Pair(KIND, Str(kd))>>)

\* a property that is a one-element allOf around a reference, with a default
NodeRef ==
  Obj(<<Pair(ALLOF, Lst(<<Obj(<<Pair(REF, Str(<<COMPONENTS, "Foo">>))>>)>>)),
        Pair(DEFAULT, Str(<<"x">>))>>)
\* a resource with its group-version-kind triples and both properties
NodeGvk ==
  Obj(<<Pair(GVK, Lst(<<Triple(<<"apps">>, <<"v1">>, <<"Deployment">>),
                        Triple(<<"apps">>, <<"v1">>, <<"Deployment">>)>>)),
        Pair(PROPERTIES, Obj(<<Pair(KIND, Obj(<<>>)), Pair(APIVERSION, Obj(<<>>))>>))>>)
\* a node with the triples and no "properties"
NodeBare == Obj(<<Pair(GVK, Lst(<<Triple(<<>>, <<"v1">>, <<"Status">>)>>))>>)

\* the body of a per-path document with the definitions defs
PathDoc(defs) == Obj(<<Pair("components", Obj(<<Pair("schemas", Obj(defs))>>))>>)
Malformed == [malformed |-> TRUE]      \* a body that is no JSON
PathBodies ==
  { PathDoc(<<Pair("A", NodeRef)>>),
    PathDoc(<<Pair("A", NodeGvk)>>),
    PathDoc(<<Pair("B", NodeBare)>>),
    Malformed }
\* the catalog document listing the paths 1..n (a path is named by its number)
CatalogDoc(n) == Obj(<<Pair("paths", Obj([i \in 1..n |-> Pair(i, Obj(<<>>))]))>>)
CatalogBodies == {CatalogDoc(n) : n \in 0..MaxPaths} \cup {Malformed}
Statuses == {200, 500}
Response(status, body) == [status |-> status, body |-> body]

\* resp.json() raises on a body that is no JSON
JsonRaises(body) == body = Malformed
\* x.get(key, {}) on the items of a dict
GetOrEmpty(o, key) == IF Has(o, key) THEN Get(o, key).obj ELSE <<>>
\* list(resp.json().get("paths", {}).keys())
CatalogPaths(body) == Keys(GetOrEmpty(body.obj, "paths"))
\* resp.json().get("components", {}).get("schemas", {})
DocSchemas(body) == GetOrEmpty(GetOrEmpty(body.obj, "components"), "schemas")

\* ------------------------------------------------------------ the store
Schemas == heap[cur]
Referenced(i) == \E r \in Readers : rref[r] = i
\* the address `{}` gets: one no handler holds
FreshId == CHOOSE i \in Ids : ~Referenced(i) /\ \A j \in Ids : ~Referenced(j) => i <= j

\* self._schemas.clear() in the place of the assignment: the store keeps its
\* dict and empties it
RebindInPlace ==
  /\ cur' = cur
  /\ heap' = [heap EXCEPT ![cur] = <<>>]

\* self._schemas = {} : the store is bound to a new, empty dict; the dict it
\* held stays as it is for whoever holds it
Rebind ==
  /\ cur' = FreshId
  /\ heap' = [i \in Ids |-> IF i = FreshId \/ ~Referenced(i) THEN <<>> ELSE heap[i]]

\* the store's dict takes the items d (a mutation in place)
StoreItems(d) == heap' = [heap EXCEPT ![cur] = d] /\ UNCHANGED cur

\* --------------------------------------------------- SchemaCache.update
\* `with self._lock: self._schemas = {}` and the catalog request is sent
UpdateBegin ==
  /\ spc = "acquire" /\ ~lock
  /\ lock' = TRUE
  /\ Rebind
  /\ before' = Schemas
  /\ outcome' = "running"
  /\ fetched' = <<>>
  /\ straddle' = [r \in Readers |->
        straddle[r] \/ ((allRes[r] # NoRes) # (defRes[r] # NoRes \/ rpc[r] = "encode"))]
  /\ spc' = "catalog"
  /\ UNCHANGED <<running, elapsed, mpc, todo, rpc, rref, allRes, defRes, lastGood,
                 hadNonEmpty>>

\* the cycle ends by `return` (how = "catalog_fail" or "ok") or by an
\* exception (how = "raised"): the lock is released; an exception ends the thread
EndCycle(how) ==
  /\ lock' = FALSE
  /\ outcome' = how
  /\ spc' = IF how = "raised" THEN "dead" ELSE "stamp"
  /\ todo' = <<>>
  /\ fetched' = <<>>
  /\ before' = IF how = "ok" THEN <<>> ELSE before

\* the answer to GET {server}/openapi/v3
CatalogResponse ==
  /\ spc = "catalog"
  /\ \E st \in Statuses, body \in CatalogBodies :
       IF st # 200
       THEN EndCycle("catalog_fail")
       ELSE IF JsonRaises(body)
       THEN EndCycle("raised")
       ELSE /\ todo' = CatalogPaths(body)
            /\ spc' = IF CatalogPaths(body) = <<>> THEN "normalize" ELSE "path"
            /\ UNCHANGED <<lock, outcome, before, fetched>>
  /\ UNCHANGED <<heap, cur, running, elapsed, mpc, readerVars, lastGood, hadNonEmpty>>

\* the answer to GET {server}/openapi/v3/{path} for the first path of todo
PathResponse ==
  /\ spc = "path"
  /\ \E st \in Statuses, body \in PathBodies :
       IF st = 200 /\ JsonRaises(body)
       THEN EndCycle("raised") /\ UNCHANGED <<heap, cur>>
       ELSE /\ IF st # 200
               THEN UNCHANGED <<heap, cur>>
               ELSE StoreItems(DictUpdate(Schemas, DocSchemas(body)))
            /\ fetched' = Append(fetched, Response(st, body))
            /\ todo' = Tail(todo)
            /\ spc' = IF Tail(todo) = <<>> THEN "normalize" ELSE "path"
            /\ UNCHANGED <<lock, outcome, before>>
  /\ UNCHANGED <<running, elapsed, mpc, readerVars, lastGood, hadNonEmpty>>

\* the loop over self._schemas.values(), then the end of the `with` block
Normalize ==
  /\ spc = "normalize"
  /\ LET r == NormalizeAll(Schemas)
     IN /\ StoreItems(r.val)
        /\ EndCycle(IF r.ok THEN "ok" ELSE "raised")
        /\ lastGood' = IF r.ok THEN r.val ELSE lastGood
        /\ hadNonEmpty' = (hadNonEmpty \/ (r.ok /\ r.val # <<>>))
  /\ UNCHANGED <<running, elapsed, mpc, readerVars>>

\* ------------------------------------------------- update_cache and main
\* the loop test taken as `while True:`
SchedWhileTrue ==
  /\ spc = "while"
  /\ spc' = "if"
  /\ UNCHANGED <<heap, cur, lock, running, elapsed, mpc, todo, rpc, rref, allRes,
                 defRes, straddle, before, lastGood, hadNonEmpty, outcome, fetched>>

\* while running.is_set():
SchedWhile ==
  /\ spc = "while"
  /\ spc' = IF running THEN "if" ELSE "exit"
  /\ UNCHANGED <<heap, cur, lock, running, elapsed, mpc, todo, readerVars, histVars>>

\* if time.time() > last_run + interval: sc.update()
SchedIf ==
  /\ spc = "if"
  /\ spc' = IF elapsed THEN "acquire" ELSE "sleep"
  /\ UNCHANGED <<heap, cur, lock, running, elapsed, mpc, todo, readerVars, histVars>>

\* last_run = time.time(), after update() returned
SchedStamp ==
  /\ spc = "stamp"
  /\ elapsed' = FALSE
  /\ spc' = "sleep"
  /\ UNCHANGED <<heap, cur, lock, running, mpc, todo, readerVars, histVars>>

\* time.sleep(0.1)
SchedSleep ==
  /\ spc = "sleep"
  /\ spc' = "while"
  /\ UNCHANGED <<heap, cur, lock, running, elapsed, mpc, todo, readerVars, histVars>>

\* the interval passes
Tick ==
  /\ ~elapsed
  /\ elapsed' = TRUE
  /\ UNCHANGED <<heap, cur, lock, running, spc, mpc, todo, readerVars, histVars>>

\* uvicorn.run returns; running.clear()
Shutdown ==
  /\ mpc = "serving"
  /\ running' = FALSE
  /\ mpc' = "joining"
  /\ UNCHANGED <<heap, cur, lock, elapsed, spc, todo, readerVars, histVars>>

\* t.join() returns once the thread has ended
Join ==
  /\ mpc = "joining"
  /\ spc \in {"exit", "dead"}
  /\ mpc' = "done"
  /\ UNCHANGED <<heap, cur, lock, running, elapsed, spc, todo, readerVars, histVars>>

\* ------------------------------------------------------ the read side
\* SchemaCache.paths: `with self._lock: return list(self._schemas.keys())`
PathsRead == Keys(Schemas)
\* SchemaCache.schemas: `with self._lock: return self._schemas`, the dict itself
SchemasRead == cur

\* all() with the f prefix of the string forgotten: every entry names "{path}"
AllJsonNoFormat(paths) ==
  Obj(<<Pair("oneOf",
        Lst([i \in 1..Len(paths) |->
               Obj(<<Pair(REF, Str(<<"_definitions.json#definitions/", "{path}">>))>>)]))>>)

\* all(): {"oneOf": [{"$ref": f"_definitions.json#definitions/{path}"}, ...]}
AllJson(paths) ==
  Obj(<<Pair("oneOf",
        Lst([i \in 1..Len(paths) |->
               Obj(<<Pair(REF, Str(<<"_definitions.json#definitions/", paths[i]>>))>>)]))>>)
\* schemas(): {"definitions": sc.schemas}, as the response body encodes it
DefinitionsJson(d) == Obj(<<Pair("definitions", Obj(d))>>)

\* a client sends GET /all.json or GET /_definitions.json; the handler waits
\* for the lock. A client asks for each document once, then forgets both.
Request(r) ==
  /\ mpc = "serving"
  /\ rpc[r] = "idle"
  /\ \E kind \in {"all", "defs"} :
       /\ (IF kind = "all" THEN allRes[r] ELSE defRes[r]) = NoRes
       /\ rpc' = [rpc EXCEPT ![r] = kind]
  /\ UNCHANGED <<heap, cur, lock, running, elapsed, spc, mpc, todo,
                 rref, allRes, defRes, straddle, histVars>>

\* the handler all() reads sc.paths and answers
ServeAll(r) ==
  /\ rpc[r] = "all" /\ ~lock
  /\ allRes' = [allRes EXCEPT ![r] = AllJson(PathsRead)]
  /\ rpc' = [rpc EXCEPT ![r] = "idle"]
  /\ UNCHANGED <<heap, cur, lock, running, elapsed, spc, mpc, todo,
                 rref, defRes, straddle, histVars>>

\* the handler schemas() reads sc.schemas and returns the dict it was given
ServeDefs(r) ==
  /\ rpc[r] = "defs" /\ ~lock
  /\ rref' = [rref EXCEPT ![r] = SchemasRead]
  /\ rpc' = [rpc EXCEPT ![r] = "encode"]
  /\ UNCHANGED <<heap, cur, lock, running, elapsed, spc, mpc, todo,
                 allRes, defRes, straddle, histVars>>

\* the returned dict is encoded into the response body; the handler's
\* reference is dropped, and with the last reference the dict
Encode(r) ==
  /\ rpc[r] = "encode"
  /\ defRes' = [defRes EXCEPT ![r] = DefinitionsJson(heap[rref[r]])]
  /\ rref' = [rref EXCEPT ![r] = 0]
  /\ rpc' = [rpc EXCEPT ![r] = "idle"]
  /\ heap' = [i \in Ids |->
        IF i # cur /\ ~(\E q \in Readers \ {r} : rref[q] = i) THEN <<>> ELSE heap[i]]
  /\ UNCHANGED <<cur, lock, running, elapsed, spc, mpc, todo, allRes, straddle, histVars>>

\* the client is done with the two documents
Forget(r) ==
  /\ rpc[r] = "idle"
  /\ allRes[r] # NoRes /\ defRes[r] # NoRes
  /\ allRes' = [allRes EXCEPT ![r] = NoRes]
  /\ defRes' = [defRes EXCEPT ![r] = NoRes]
  /\ straddle' = [straddle EXCEPT ![r] = FALSE]
  /\ UNCHANGED <<heap, cur, lock, running, elapsed, spc, mpc, todo, rpc, rref, histVars>>

\* ------------------------------------------------------ specification
\* main has built the SchemaCache, set `running` and started the thread
Init ==
  /\ hashRev = FALSE
  /\ heap = [i \in Ids |-> <<>>]
  /\ cur = 1
  /\ lock = FALSE
  /\ running = TRUE
  /\ elapsed = TRUE
  /\ spc = "while"
  /\ mpc = "serving"
  /\ todo = <<>>
  /\ rpc = [r \in Readers |-> "idle"]
  /\ rref = [r \in Readers |-> 0]
  /\ allRes = [r \in Readers |-> NoRes]
  /\ defRes = [r \in Readers |-> NoRes]
  /\ straddle = [r \in Readers |-> FALSE]
  /\ before = <<>>
  /\ lastGood = <<>>
  /\ hadNonEmpty = FALSE
  /\ outcome = "none"
  /\ fetched = <<>>
  /\ nv = <<>> /\ nfirst = <<>> /\ nin = <<>> /\ npc = "off"

Next ==
  \/ (UpdateBegin /\ UNCHANGED <<hashRev, normVars>>)
  \/ (CatalogResponse /\ UNCHANGED <<hashRev, normVars>>)
  \/ (PathResponse /\ UNCHANGED <<hashRev, normVars>>)
  \/ (Normalize /\ UNCHANGED <<hashRev, normVars>>)
  \/ (SchedWhile /\ UNCHANGED <<hashRev, normVars>>)
  \/ (SchedIf /\ UNCHANGED <<hashRev, normVars>>)
  \/ (SchedStamp /\ UNCHANGED <<hashRev, normVars>>)
  \/ (SchedSleep /\ UNCHANGED <<hashRev, normVars>>)
  \/ (Tick /\ UNCHANGED <<hashRev, normVars>>)
  \/ (Shutdown /\ UNCHANGED <<hashRev, normVars>>)
  \/ (Join /\ UNCHANGED <<hashRev, normVars>>)
  \/ \E r \in Readers :
       \/ (Request(r) /\ UNCHANGED <<hashRev, normVars>>)
       \/ (ServeAll(r) /\ UNCHANGED <<hashRev, normVars>>)
       \/ (ServeDefs(r) /\ UNCHANGED <<hashRev, normVars>>)
       \/ (Encode(r) /\ UNCHANGED <<hashRev, normVars>>)
       \/ (Forget(r) /\ UNCHANGED <<hashRev, normVars>>)

Spec == Init /\ [][Next]_vars

\* A caller that holds the dict schemas() returned removes one of its items.
\* (No code of the repository does; SpecMut adds such a caller.)
CallerMutate(r) ==
  /\ rpc[r] = "encode"
  /\ \E name \in KeySet(heap[rref[r]]) :
       heap' = [heap EXCEPT ![rref[r]] = DictPop(heap[rref[r]], name)]
  /\ UNCHANGED <<cur, lock, running, elapsed, spc, mpc, todo, readerVars, histVars>>

NextMut ==
  \/ Next
  \/ \E r \in Readers : (CallerMutate(r) /\ UNCHANGED <<hashRev, normVars>>)

SpecMut == Init /\ [][NextMut]_vars

\* ---------------------------------------- normalization on its own
\* The loop of update() (lines 127-132) applied to a fetched SchemaSet, and
\* applied again to its own output.
RefFoo == Str(<<COMPONENTS, "Foo">>)
RefBar == Str(<<COMPONENTS, "Bar">>)
AllOfShapes == {"none", "one", "oneDefault", "oneOther", "two", "direct"}
AllOfItems(shape) ==
  CASE shape = "none" -> <<>>
    [] shape = "one" -> <<Pair(ALLOF, Lst(<<Obj(<<Pair(REF, RefFoo)>>)>>))>>
    [] shape = "oneDefault" ->
         <<Pair(ALLOF, Lst(<<Obj(<<Pair(REF, RefFoo), Pair(DEFAULT, Str(<<"x">>))>>)>>))>>
    [] shape = "oneOther" -> <<Pair(ALLOF, Lst(<<Obj(<<Pair("type", Str(<<"object">>))>>)>>))>>
    [] shape = "two" ->
         <<Pair(ALLOF, Lst(<<Obj(<<Pair(REF, RefFoo)>>), Obj(<<Pair(REF, RefBar)>>)>>))>>
    [] shape = "direct" -> <<Pair(REF, RefFoo)>>
EnumShapes == {<<>>, <<"a", "a">>, <<"a", "b", "a">>}
EnumItems(e) ==
  IF e = <<>> THEN <<>>
  ELSE <<Pair(ENUM, Lst([i \in 1..Len(e) |-> Str(<<e[i]>>)]))>>
Leaf(shape, e, dflt) ==
  Obj(AllOfItems(shape) \o EnumItems(e)
      \o (IF dflt THEN <<Pair(DEFAULT, Str(<<"x">>))>> ELSE <<>>))
Leaves == {Leaf(shape, e, dflt) : shape \in AllOfShapes, e \in EnumShapes, dflt \in BOOLEAN}
\* a leaf as the definition, below an object, in a list, in a list in a list
Wrapped(leaf) ==
  { leaf,
    Obj(<<Pair(PROPERTIES, Obj(<<Pair("x", leaf)>>))>>),
    Obj(<<Pair("items", Lst(<<leaf>>))>>),
    Obj(<<Pair("items", Lst(<<Lst(<<leaf>>)>>))>>) }

Groups == {<<>>, <<"apps">>, <<"v1">>}
Versions == {<<"v1">>, <<"v2">>}
Kinds == {<<"Pod">>, <<"Job">>}
Triples == {Triple(g, ver, kd) : g \in Groups, ver \in Versions, kd \in Kinds}
TripleSeqs == UNION {[1..n -> Triples] : n \in 0..MaxTriples}
PropShapes ==
  { <<>>,
    <<Pair(PROPERTIES, Obj(<<Pair(KIND, Obj(<<Pair(ENUM, Lst(<<Str(<<"Old">>)>>))>>))>>))>>,
    <<Pair(PROPERTIES, Obj(<<Pair(APIVERSION, Obj(<<>>))>>))>>,
    <<Pair(PROPERTIES, Obj(<<Pair(KIND, Obj(<<>>)), Pair(APIVERSION, Obj(<<>>))>>))>> }
MarkShapes ==
  { <<>>,
    <<Pair(ADDITIONAL, Bool(TRUE))>>,
    <<Pair(PRESERVE, Bool(TRUE))>>,
    <<Pair(PRESERVE, Bool(TRUE)), Pair(ADDITIONAL, Bool(TRUE))>>,
    <<Pair(PRESERVE, Bool(TRUE)), Pair(ADDITIONAL, Obj(<<Pair(REF, RefFoo)>>))>> }
GvkNodes ==
  {Obj(<<Pair(GVK, Lst(ts))>> \o props \o marks) :
     ts \in TripleSeqs, props \in PropShapes, marks \in MarkShapes}
NormNodes == (UNION {Wrapped(leaf) : leaf \in Leaves}) \cup GvkNodes
NormSets == {<<Pair("A", node)>> : node \in NormNodes}

InitNorm ==
  /\ hashRev \in BOOLEAN
  /\ heap = [i \in Ids |-> <<>>]
  /\ cur = 1
  /\ lock = FALSE
  /\ running = TRUE
  /\ elapsed = TRUE
  /\ spc = "while"
  /\ mpc = "serving"
  /\ todo = <<>>
  /\ rpc = [r \in Readers |-> "idle"]
  /\ rref = [r \in Readers |-> 0]
  /\ allRes = [r \in Readers |-> NoRes]
  /\ defRes = [r \in Readers |-> NoRes]
  /\ straddle = [r \in Readers |-> FALSE]
  /\ before = <<>>
  /\ lastGood = <<>>
  /\ hadNonEmpty = FALSE
  /\ outcome = "none"
  /\ fetched = <<>>
  /\ nv \in NormSets
  /\ nfirst = <<>>
  /\ nin = nv
  /\ npc = "raw"

\* the normalization loop on the fetched set
NormFirst ==
  /\ npc = "raw"
  /\ LET r == NormalizeAll(nv)
     IN /\ nv' = r.val
        /\ nfirst' = r.val
        /\ npc' = IF r.ok THEN "once" ELSE "raised1"
  /\ UNCHANGED <<hashRev, sysVars, nin>>

\* the normalization loop on its own output
NormSecond ==
  /\ npc = "once"
  /\ LET r == NormalizeAll(nv)
     IN /\ nv' = r.val
        /\ npc' = IF r.ok THEN "twice" ELSE "raised2"
  /\ UNCHANGED <<hashRev, sysVars, nfirst, nin>>

\* _cleanup_schema called on the definition, by itself
CleanupAlone ==
  /\ npc = "raw"
  /\ LET r == CleanupSchema(nv[1].v.obj)
     IN /\ nv' = <<Pair(nv[1].k, Obj(r.val))>>
        /\ npc' = IF r.ok THEN "cleaned" ELSE "cleanRaised"
  /\ UNCHANGED <<hashRev, sysVars, nfirst, nin>>

\* _fix_kind called on the definition, by itself
FixKindAlone ==
  /\ npc = "raw"
  /\ LET r == FixKind(nv[1].v.obj)
     IN /\ nv' = <<Pair(nv[1].k, Obj(r.val))>>
        /\ npc' = IF r.ok THEN "fixed" ELSE "fixRaised"
  /\ UNCHANGED <<hashRev, sysVars, nfirst, nin>>

NextNorm == NormFirst \/ NormSecond \/ CleanupAlone \/ FixKindAlone

SpecNorm == InitNorm /\ [][NextNorm]_vars

\* a JSON value up to the order of the items of a dict, an "enum" list taken
\* as the set of its values
RECURSIVE Canon(_)
Canon(x) ==
  IF IsDict(x)
  THEN [obj |-> [key \in KeySet(x.obj) |->
          LET val == Get(x.obj, key)
          IN IF key = ENUM /\ IsList(val)
             THEN [set |-> {Canon(val.lst[i]) : i \in 1..Len(val.lst)}]
             ELSE Canon(val)]]
  ELSE IF IsList(x) THEN [lst |-> [i \in 1..Len(x.lst) |-> Canon(x.lst[i])]]
  ELSE x
SameSet(d, e) == Canon(Obj(d)) = Canon(Obj(e))

\* C8: the normalization loop applied to its own output returns, and yields
\* the set it was given (dict items in any order, enum contents as sets).
C8_NormalizationIdempotent ==
  npc \in {"twice", "raised2"} => (npc = "twice" /\ SameSet(nv, nfirst))

\* a value with, at any depth, a "$ref" string naming the components namespace
RECURSIVE HasComponentsRef(_)
HasComponentsRef(x) ==
  IF IsDict(x)
  THEN \/ /\ Has(x.obj, REF) /\ IsStr(Get(x.obj, REF))
          /\ \E i \in 1..Len(Get(x.obj, REF).str) : Get(x.obj, REF).str[i] = COMPONENTS
       \/ \E i \in 1..Len(x.obj) : HasComponentsRef(x.obj[i].v)
  ELSE IF IsList(x) THEN \E i \in 1..Len(x.lst) : HasComponentsRef(x.lst[i])
  ELSE FALSE

\* C9: after the normalization of a cycle, no "$ref" string at any depth of
\* the set contains "#/components/schemas/".
C9_NoComponentsRefLeft == npc = "once" => ~HasComponentsRef(Obj(nv))

\* a value with, at any depth, an "enum" list that repeats a value
RECURSIVE HasRepeatedEnum(_)
HasRepeatedEnum(x) ==
  IF IsDict(x)
  THEN \/ /\ Has(x.obj, ENUM) /\ IsList(Get(x.obj, ENUM))
          /\ LET e == Get(x.obj, ENUM).lst
             IN \E i, j \in 1..Len(e) : i # j /\ e[i] = e[j]
       \/ \E i \in 1..Len(x.obj) : HasRepeatedEnum(x.obj[i].v)
  ELSE IF IsList(x) THEN \E i \in 1..Len(x.lst) : HasRepeatedEnum(x.lst[i])
  ELSE FALSE

\* C10: after the normalization of a cycle, every "enum" list at any depth of
\* the set has pairwise distinct values.
C10_EnumsDistinct == npc = "once" => ~HasRepeatedEnum(Obj(nv))

\* ====================================================================
\* Claims
\* ====================================================================
\* a read step of client r: the handler evaluates sc.paths or sc.schemas
ReadsPaths(r) == rpc[r] = "all" /\ rpc'[r] = "idle"
ReadsSchemas(r) == rpc[r] = "defs" /\ rpc'[r] = "encode"

\* C1: when the catalog fetch of a cycle returns a non-200 status, the store
\* holds, once the cycle has ended, exactly the set it held when the cycle began.
C1_CatalogFailureKeepsStore == outcome = "catalog_fail" => Schemas = before

\* C2: every read returns a whole set: after a cycle that ran to its end, the
\* set it produced; after a cycle that failed, the set stored before it -
\* never a cleared, partly merged or partly normalized one.
C2_ReadsSeeWholeSets ==
  [][\A r \in Readers :
       (ReadsPaths(r) \/ ReadsSchemas(r)) =>
         (outcome \in {"none", "ok"} \/ Schemas = before)]_vars

\* C3: once a cycle has succeeded with a non-empty set, every read returns the
\* set of the most recent successful cycle, whatever failed since.
C3_ReadsServeLastGood ==
  [][\A r \in Readers :
       /\ (hadNonEmpty /\ ReadsSchemas(r)) => heap[rref'[r]] = lastGood
       /\ (hadNonEmpty /\ ReadsPaths(r)) => allRes'[r] = AllJson(Keys(lastGood))]_vars

\* C4: while update() waits for the answer to the catalog request or to a
\* per-path request, a handler waiting to read can take its step.
C4_ReadsNotBlockedByFetch ==
  spc \in {"catalog", "path"} =>
    \A r \in Readers :
      /\ rpc[r] = "all" => ENABLED ServeAll(r)
      /\ rpc[r] = "defs" => ENABLED ServeDefs(r)

\* what the per-path answers of a cycle should leave in the store: the
\* definitions of the answers with status 200, merged in order, normalized
RECURSIVE MergedFrom(_, _, _)
MergedFrom(log, i, acc) ==
  IF i > Len(log) THEN acc
  ELSE MergedFrom(log, i + 1,
         IF log[i].status = 200 THEN DictUpdate(acc, DocSchemas(log[i].body)) ELSE acc)
ExpectedSet(log) == NormalizeAll(MergedFrom(log, 1, <<>>)).val

\* C5: a cycle whose catalog fetch succeeded and in which some path answered
\* non-200 does not abort, and ends with the normalized definitions of the
\* paths that answered 200, merged in catalog order.
C5_PathFailureSkipsOnlyThatPath ==
  [][(/\ outcome = "running" /\ outcome' # "running"
      /\ \E i \in 1..Len(fetched) : fetched[i].status # 200)
     => (outcome' = "ok" /\ Schemas' = ExpectedSet(fetched))]_vars

\* the names /all.json refers to, the keys /_definitions.json defines
RefNames(body) ==
  LET refs == Get(body.obj, "oneOf").lst
  IN {Get(refs[i].obj, REF).str[2] : i \in 1..Len(refs)}
DefinedNames(body) == KeySet(Get(body.obj, "definitions").obj)
HasBoth(r) == allRes[r] # NoRes /\ defRes[r] # NoRes

\* C6 (as claimed): under any interleaving of the two requests with refresh
\* cycles, every name /all.json refers to is a key of /_definitions.json.
C6_RefsDefinedAlways ==
  \A r \in Readers : HasBoth(r) => RefNames(allRes[r]) \subseteq DefinedNames(defRes[r])

\* C6 (amended): when no refresh cycle begins between the read of /all.json
\* and the read of /_definitions.json, every name /all.json refers to is a key
\* of /_definitions.json.
C6_RefsDefinedWithinOneCycle ==
  \A r \in Readers :
    (HasBoth(r) /\ ~straddle[r]) => RefNames(allRes[r]) \subseteq DefinedNames(defRes[r])

\* C6 witness: a client holds both documents, read with no cycle beginning in
\* between, after a cycle installed a definition that /all.json refers to.
C6_Witness ==
  \E r \in Readers :
    /\ HasBoth(r) /\ ~straddle[r]
    /\ RefNames(allRes[r]) # {}
    /\ outcome = "ok"

\* C7: a caller that mutates the dict schemas() returned does not change what
\* the store holds.
C7_CallerCannotMutateStore ==
  [][\A r \in Readers :
       (rpc[r] = "encode" /\ rpc'[r] = "encode" /\ heap'[rref[r]] # heap[rref[r]])
         => Schemas' = Schemas]_vars

\* a value with, at any depth, an object that has a "default" key
RECURSIVE HasDefaultKey(_)
HasDefaultKey(x) ==
  IF IsDict(x)
  THEN \/ Has(x.obj, DEFAULT)
       \/ \E i \in 1..Len(x.obj) : HasDefaultKey(x.obj[i].v)
  ELSE IF IsList(x) THEN \E i \in 1..Len(x.lst) : HasDefaultKey(x.lst[i])
  ELSE FALSE

\* C11: after the normalization of a cycle, no object at any depth of the
\* set - a definition, or an object nested in objects or in lists - has a
\* "default" key.
C11_NoDefaultLeft == npc = "once" => ~HasDefaultKey(Obj(nv))

\* the definition _fix_kind was called on, before and after the call
FixIn == nin[1].v.obj
FixOut == nv[1].v.obj
TriplesOf(o) == Get(o, GVK).lst
PropEnum(o, name) == Get(Get(Get(o, PROPERTIES).obj, name).obj, ENUM).lst
HasProp(o, name) ==
  Has(o, GVK) /\ Has(o, PROPERTIES) /\ Has(Get(o, PROPERTIES).obj, name)
Distinct(seq) == \A i, j \in 1..Len(seq) : i # j => seq[i] # seq[j]
ApiVersionsOf(triples) ==
  {ApiVersionOf(Get(triples[i].obj, GROUP), Get(triples[i].obj, VERSION)) :
     i \in 1..Len(triples)}

\* C12: on a node with the triples and properties.apiVersion, _fix_kind leaves
\* in properties.apiVersion.enum each distinct apiVersion string of the triples
\* ("group/version", or the bare version for an empty group) exactly once,
\* and nothing else.
C12_ApiVersionEnumIsDistinctApiVersions ==
  (npc = "fixed" /\ HasProp(FixIn, APIVERSION)) =>
     LET enum == PropEnum(FixOut, APIVERSION)
     IN /\ Distinct(enum)
        /\ {enum[i] : i \in 1..Len(enum)} = ApiVersionsOf(TriplesOf(FixIn))

KindsOf(triples) == [i \in 1..Len(triples) |-> Get(triples[i].obj, KIND)]
FirstIndex(seq, x) == CHOOSE i \in 1..Len(seq) : seq[i] = x /\ \A j \in 1..(i - 1) : seq[j] # x

\* C13: on a node with the triples and properties.kind, _fix_kind replaces
\* properties.kind.enum - whatever it held - by the kinds of the triples, each
\* once, in the order of their first occurrence, and leaves the triples where
\* they are.
C13_KindEnumIsFirstOccurrences ==
  (npc = "fixed" /\ HasProp(FixIn, KIND)) =>
     LET enum == PropEnum(FixOut, KIND)
         kinds == KindsOf(TriplesOf(FixIn))
     IN /\ Distinct(enum)
        /\ {enum[i] : i \in 1..Len(enum)} = {kinds[i] : i \in 1..Len(kinds)}
        /\ \A i, j \in 1..Len(enum) :
              i < j => FirstIndex(kinds, enum[i]) < FirstIndex(kinds, enum[j])
        /\ Has(FixOut, GVK) /\ Get(FixOut, GVK) = Get(FixIn, GVK)

\* C13 witness: _fix_kind has run on a node whose properties.kind had an enum
\* of its own and whose triples name one kind twice.
C13_Witness ==
  /\ npc = "fixed" /\ HasProp(FixIn, KIND)
  /\ Has(Get(Get(FixIn, PROPERTIES).obj, KIND).obj, ENUM)
  /\ Len(TriplesOf(FixIn)) >= 2
  /\ ~Distinct(KindsOf(TriplesOf(FixIn)))

\* the definition the normalization loop worked on, before and after
NormIn == nin[1].v.obj
NormOut == nv[1].v.obj

CleanupIn == nin[1].v.obj
CleanupOut == nv[1].v.obj
\* the narrow case: a one-element allOf whose sole element is a single-key object
NarrowAllOf(o) ==
  /\ Has(o, ALLOF) /\ IsList(Get(o, ALLOF))
  /\ Len(Get(o, ALLOF).lst) = 1
  /\ IsDict(Get(o, ALLOF).lst[1])
  /\ Len(Get(o, ALLOF).lst[1].obj) = 1

\* C15: _cleanup_schema on a node with the narrow allOf returns with the
\* element's $ref, rewritten, as the node's own $ref and without the allOf
\* key; on a node with an allOf of any other shape it returns with the allOf
\* key still there and as many elements in it as before.
C15_HoistOnlyNarrowAllOf ==
  (npc \in {"cleaned", "cleanRaised"} /\ Has(CleanupIn, ALLOF)) =>
     /\ npc = "cleaned"
     /\ IF NarrowAllOf(CleanupIn)
        THEN LET elem == Get(CleanupIn, ALLOF).lst[1].obj
             IN /\ ~Has(CleanupOut, ALLOF)
                /\ Has(elem, REF)
                /\ Has(CleanupOut, REF)
                /\ Get(CleanupOut, REF) = Str(StrReplace(Get(elem, REF).str))
        ELSE /\ Has(CleanupOut, ALLOF)
             /\ Len(Get(CleanupOut, ALLOF).lst) = Len(Get(CleanupIn, ALLOF).lst)

\* C17: _fix_kind never raises: on a node with the triples and no
\* "properties" it returns and leaves the node as it was, and on a node whose
\* "properties" lacks "kind" or "apiVersion" it adds no such property.
C17_FixKindNeverFails ==
  npc \in {"fixed", "fixRaised"} =>
     /\ npc = "fixed"
     /\ (Has(FixIn, GVK) /\ ~Has(FixIn, PROPERTIES)) => FixOut = FixIn
     /\ (Has(FixIn, GVK) /\ Has(FixIn, PROPERTIES)) =>
          \A name \in {KIND, APIVERSION} :
             ~Has(Get(FixIn, PROPERTIES).obj, name) => ~Has(Get(FixOut, PROPERTIES).obj, name)

\* C18: a body that is no JSON is handled like a non-200 status: no answer to
\* the catalog request or to a per-path request makes the cycle end by an
\* exception, and after the answer to a per-path request the cycle goes on.
C18_MalformedBodyIsSkipped ==
  [][/\ spc \in {"catalog", "path"} => (outcome' # "raised" /\ spc' # "dead")
     /\ spc = "path" => outcome' = "running"]_vars

\* ------------------------------------- the scheduler thread and main alone
\* update_cache, update() and main with no request being served
NextSched ==
  \/ (UpdateBegin /\ UNCHANGED <<hashRev, normVars>>)
  \/ (CatalogResponse /\ UNCHANGED <<hashRev, normVars>>)
  \/ (PathResponse /\ UNCHANGED <<hashRev, normVars>>)
  \/ (Normalize /\ UNCHANGED <<hashRev, normVars>>)
  \/ (SchedWhile /\ UNCHANGED <<hashRev, normVars>>)
  \/ (SchedIf /\ UNCHANGED <<hashRev, normVars>>)
  \/ (SchedStamp /\ UNCHANGED <<hashRev, normVars>>)
  \/ (SchedSleep /\ UNCHANGED <<hashRev, normVars>>)
  \/ (Tick /\ UNCHANGED <<hashRev, normVars>>)
  \/ (Shutdown /\ UNCHANGED <<hashRev, normVars>>)
  \/ (Join /\ UNCHANGED <<hashRev, normVars>>)

\* the thread update_cache takes its next step: a statement of its loop, or a
\* step of the update() it is in up to the normalization loop (a request sent
\* is answered)
ThreadStep ==
  /\ \/ UpdateBegin \/ CatalogResponse \/ PathResponse
     \/ SchedWhile \/ SchedIf \/ SchedStamp \/ SchedSleep
  /\ UNCHANGED <<hashRev, normVars>>
\* the thread runs; the normalization loop, over a finite dict, comes to its
\* end (Normalize is the one step that leaves "normalize"); time passes; main
\* returns from t.join() when it can; nothing makes uvicorn.run return
Fairness ==
  /\ WF_vars(ThreadStep)
  /\ []<>(spc # "normalize")
  /\ WF_vars(Tick /\ UNCHANGED <<hashRev, normVars>>)
  /\ WF_vars(Join /\ UNCHANGED <<hashRev, normVars>>)

SpecLive == Init /\ [][NextSched]_vars /\ Fairness

ThreadEnded == spc \in {"exit", "dead"}

\* C16: once `running` is cleared the thread update_cache ends - at its next
\* loop test, after the cycle it is in if it is in one - and main passes
\* t.join(); main passes t.join() only when the thread has ended; the thread,
\* once its loop test has seen `running` cleared, begins no cycle.
C16_ShutdownEndsScheduler ==
  /\ (~running) ~> ThreadEnded
  /\ (~running) ~> (mpc = "done")
  /\ [](mpc = "done" => ThreadEnded)
  /\ [][spc = "exit" => spc' = "exit"]_vars

\* C16 witness: main has passed t.join() after the thread, having run a cycle
\* to its end, left its loop at the loop test.
C16_Witness == mpc = "done" /\ spc = "exit" /\ outcome = "ok" /\ ~running

\* C19: the thread's first loop iteration runs a cycle; a cycle, however it
\* ends, leaves the thread in its loop; and unless `running` is cleared, a
\* cycle that has ended is followed by another.
C19_EveryCycleIsFollowedByAnother ==
  /\ [](outcome = "none" => elapsed)
  /\ [](outcome \notin {"none", "running"} => <>(~running \/ outcome = "running"))
  /\ [](outcome # "running" => spc # "dead")

\* C20: the dict a call of schemas() returned is altered by no step of any
\* later cycle: while a handler holds it, it keeps its keys and definitions.
C20_ReturnedMappingNeverAltered ==
  [][\A r \in Readers :
       (rref[r] # 0 /\ rref'[r] = rref[r]) => heap'[rref[r]] = heap[rref[r]]]_vars

\* C20 witness: a handler holds a non-empty dict schemas() returned, and a
\* cycle that began since has run to its end and installed another set.
C20_Witness ==
  \E r \in Readers :
    /\ rref[r] # 0 /\ rref[r] # cur
    /\ heap[rref[r]] # <<>>
    /\ outcome = "ok"
    /\ Schemas # heap[rref[r]]

====
